---- MODULE Spec2Model ----
(***************************************************************************)
(* Model of the FFDS provider (src/lib/providers/ffds.js): the season      *)
(* filter, the listing extraction (extractHeader / listResults), the       *)
(* serial detail and ranking fetches of getDetails, and the club directory *)
(* cache shared by searchGroups and getGroupCouples.                       *)
(*                                                                         *)
(* Strings are sequences of one-character strings, so that trim,           *)
(* toLowerCase, titleize, slugify and the regular expressions of the       *)
(* source are computed and not assumed.  Dates are records                 *)
(* [valid, year, month, day] with month zero-indexed as in moment.         *)
(*                                                                         *)
(* lib/utils (runSerially, mergeCompetitions, handleRequestError) and      *)
(* lib/models/competition are required by the provider but are not part of *)
(* the sources at hand: they are modelled from sections 3, 4.5, 4.6 and 7  *)
(* of the specification.                                                   *)
(***************************************************************************)
EXTENDS Integers, Sequences, FiniteSets, TLC

(***************************************************************************)
(* Bounds of the model.                                                    *)
(***************************************************************************)
YearSpan == 2
MaxRows == 2
MaxDataUrls == 2
MaxLinks == 2
MaxClubs == 2
MaxScan == 4
MaxPieces == 3

VARIABLES
  \* season filter applied to one input
  sYear, sDate, sChecked, sResult,
  \* listResults: the clock, the call and its outcome
  now, lpc, lYear, lFetches, lRows, lResult,
  \* getDetails: the competition, the position of the call, the batch that
  \* runSerially is running and its results so far, the links found on the
  \* detail pages, the distinct ranking urls
  competition, dpc, dTasks, dResults, dRawUrls, dUrls,
  \* the network as the call uses it: the requests issued (in order), those
  \* in flight (indices of fetchLog) and the responses received (in order)
  fetchLog, inflight, doneLog,
  \* the club directory cache (this.clubs), the searchGroups and
  \* getGroupCouples calls of each caller, and whether two calls ever
  \* overlapped
  clubs, calls, overlap,
  \* cleanNames: its argument, the dancers it was split into, the dancer and
  \* the character the scan has reached, the accumulators and the flag of
  \* the scan, the results of the dancers done, and what the call returned
  nNames, nDancers, nIdx, nPos, nLast, nFirst, nPrevUpper, nResults, nOut, npc,
  \* cleanContest: a raw title followed by its successive cleanings
  tTitles

seasonVars == <<sYear, sDate, sChecked, sResult>>
listVars == <<now, lpc, lYear, lFetches, lRows, lResult>>
detailVars ==
  <<competition, dpc, dTasks, dResults, dRawUrls, dUrls,
    fetchLog, inflight, doneLog>>
groupVars == <<clubs, calls, overlap>>
nameVars ==
  <<nNames, nDancers, nIdx, nPos, nLast, nFirst, nPrevUpper, nResults, nOut, npc>>
titleVars == <<tTitles>>
vars == <<seasonVars, listVars, detailVars, groupVars, nameVars, titleVars>>

(***************************************************************************)
(* Generic sequence helpers.                                               *)
(***************************************************************************)
Range(s) == {s[i] : i \in 1..Len(s)}

SeqsUpTo(S, n) == UNION {[1..k -> S] : k \in 0..n}

RECURSIVE Flatten(_)
\* lodash/fp flatten: one level of nesting removed, order kept
Flatten(ss) == IF ss = <<>> THEN <<>> ELSE Head(ss) \o Flatten(Tail(ss))

RECURSIVE Uniq(_)
\* lodash/fp uniq: the first occurrence of every value, order kept
Uniq(s) ==
  IF s = <<>> THEN <<>>
  ELSE LET r == Uniq(SubSeq(s, 1, Len(s) - 1))
           x == s[Len(s)]
       IN IF x \in Range(r) THEN r ELSE Append(r, x)

(***************************************************************************)
(* Characters and the string functions of the JavaScript runtime and of    *)
(* underscore.string used by the provider.                                 *)
(***************************************************************************)
LowerAlphabet ==
  <<"a", "b", "c", "d", "e", "f", "g", "h", "i", "j", "k", "l", "m",
    "n", "o", "p", "q", "r", "s", "t", "u", "v", "w", "x", "y", "z", "é", "à">>
UpperAlphabet ==
  <<"A", "B", "C", "D", "E", "F", "G", "H", "I", "J", "K", "L", "M",
    "N", "O", "P", "Q", "R", "S", "T", "U", "V", "W", "X", "Y", "Z", "É", "À">>

\* the ASCII letters and digits
LowerLetters == {LowerAlphabet[i] : i \in 1..26}
UpperLetters == {UpperAlphabet[i] : i \in 1..26}
Digits == {"1", "2"}
WordChars == LowerLetters \cup UpperLetters \cup Digits

\* String.prototype.toLowerCase, one character
LowerChar(c) ==
  IF \E i \in 1..Len(UpperAlphabet) : UpperAlphabet[i] = c
  THEN LowerAlphabet[CHOOSE i \in 1..Len(UpperAlphabet) : UpperAlphabet[i] = c]
  ELSE c
\* String.prototype.toUpperCase, one character
UpperChar(c) ==
  IF \E i \in 1..Len(LowerAlphabet) : LowerAlphabet[i] = c
  THEN UpperAlphabet[CHOOSE i \in 1..Len(LowerAlphabet) : LowerAlphabet[i] = c]
  ELSE c

toLowerCase(s) == [i \in 1..Len(s) |-> LowerChar(s[i])]

RECURSIVE TrimLeft(_, _)
TrimLeft(s, cs) ==
  IF s # <<>> /\ Head(s) \in cs THEN TrimLeft(Tail(s), cs) ELSE s

RECURSIVE TrimRight(_, _)
TrimRight(s, cs) ==
  IF s # <<>> /\ s[Len(s)] \in cs
  THEN TrimRight(SubSeq(s, 1, Len(s) - 1), cs) ELSE s

\* String.prototype.trim
trim(s) == TrimRight(TrimLeft(s, {" "}), {" "})

RECURSIVE TitleizeFrom(_, _)
\* replace(/(?:^|\s|-)\S/g, c => c.toUpperCase()) from position i on: a match
\* is a non-blank character at the start of the string, or a blank or a
\* hyphen followed by a non-blank character; the search goes on after the
\* match
TitleizeFrom(l, i) ==
  IF i > Len(l) THEN l
  ELSE IF i = 1 /\ l[1] # " "
  THEN TitleizeFrom([l EXCEPT ![1] = UpperChar(@)], 2)
  ELSE IF l[i] \in {" ", "-"} /\ i < Len(l) /\ l[i + 1] # " "
  THEN TitleizeFrom([l EXCEPT ![i + 1] = UpperChar(@)], i + 2)
  ELSE TitleizeFrom(l, i + 1)

\* underscore.string titleize: lower-case everything, then upper-case the
\* first character of every word
titleize(s) == TitleizeFrom(toLowerCase(s), 1)

RECURSIVE CollapseDashes(_)
\* replace(/[-_\s]+/g, '-'): every run of blanks and dashes becomes one dash
CollapseDashes(s) ==
  IF s = <<>> THEN <<>>
  ELSE IF Head(s) \in {" ", "-"}
       THEN <<"-">> \o CollapseDashes(TrimLeft(Tail(s), {" ", "-"}))
       ELSE <<Head(s)>> \o CollapseDashes(Tail(s))

\* underscore.string slugify: characters that are neither word characters,
\* blanks nor dashes become dashes, the result is lower-cased, trimmed,
\* its runs of blanks and dashes collapsed, and outer dashes removed
slugify(s) ==
  LET dashed == [i \in 1..Len(s) |->
                   IF s[i] \in WordChars \cup {" ", "-"} THEN s[i] ELSE "-"]
      collapsed == CollapseDashes(trim(toLowerCase(dashed)))
  IN TrimRight(TrimLeft(collapsed, {"-"}), {"-"})

\* md5 of the concatenation of a slug and an 8-digit date: the digest is
\* taken to be collision-free, and the fixed width of the date makes the
\* concatenation injective, so the digest is the tagged pair
md5(slug, ymd) == <<"md5", slug, ymd>>

(***************************************************************************)
(* Name normaliser: cleanNames.                                            *)
(***************************************************************************)
\* the character classes of the scan, by character code: A-Z and the block
\* 192-221 are upper-case symbols; space, apostrophe and hyphen separate
AccentedUpper == {"É", "À"}
IsUpper(c) == c \in UpperLetters \cup AccentedUpper
IsSeparator(c) == c \in {" ", "'", "-"}

\* removeAccents of lib/utils: every accentuated letter becomes its base
\* letter, the other characters are kept
removeAccents(s) ==
  [i \in 1..Len(s) |->
     CASE s[i] = "É" -> "E" [] s[i] = "À" -> "A"
       [] s[i] = "é" -> "e" [] s[i] = "à" -> "a"
       [] OTHER -> s[i]]

\* the first position of sub in s, 0 when there is none
IndexOf(s, sub) ==
  IF \E i \in 1..(Len(s) - Len(sub) + 1) : SubSeq(s, i, i + Len(sub) - 1) = sub
  THEN CHOOSE i \in 1..(Len(s) - Len(sub) + 1) :
         /\ SubSeq(s, i, i + Len(sub) - 1) = sub
         /\ \A j \in 1..(i - 1) : SubSeq(s, j, j + Len(sub) - 1) # sub
  ELSE 0

RECURSIVE Split(_, _)
\* String.prototype.split with a non-empty separator
Split(s, sep) ==
  LET i == IndexOf(s, sep)
  IN IF i = 0 THEN <<s>>
     ELSE <<SubSeq(s, 1, i - 1)>> \o Split(SubSeq(s, i + Len(sep), Len(s)), sep)

RECURSIVE stripTags(_)
\* underscore.string stripTags, replace(/<\/?[^>]+>/g, ''): a tag runs from
\* a "<" to the next ">", with at least one character in between
stripTags(s) ==
  IF s = <<>> THEN <<>>
  ELSE LET close == IndexOf(Tail(s), <<">">>)
       IN IF Head(s) = "<" /\ close >= 2
          THEN stripTags(SubSeq(s, close + 2, Len(s)))
          ELSE <<Head(s)>> \o stripTags(Tail(s))

BreakMarker == <<"<", "b", "r", ">">>
UnknownCouple ==
  <<"c", "o", "u", "p", "l", "e", " ", "i", "n", "c", "o", "n", "n", "u">>

\* /couple inconnu/.test(names.toLowerCase())
IsUnknownCouple(names) == IndexOf(toLowerCase(names), UnknownCouple) # 0

\* the accumulators and the flag of the scan of one dancer
ScanState(last, first, prevUpper) ==
  [last |-> last, first |-> first, prevUpper |-> prevUpper]

ScanStepKeepingLast(st, dancer, i) ==
  LET char == dancer[i]
  IN IF IsUpper(char) THEN ScanState(Append(st.last, char), st.first, TRUE)
     ELSE IF IsSeparator(char)
     THEN IF st.prevUpper THEN ScanState(Append(st.last, char), st.first, FALSE)
          ELSE ScanState(st.last, Append(st.first, char), FALSE)
     ELSE IF st.prevUpper
     THEN ScanState(st.last, st.first \o SubSeq(dancer, i - 1, i), FALSE)
     ELSE ScanState(st.last, Append(st.first, char), FALSE)

\* the callback of forEach for the character at position i (from 1) of dancer
ScanStep(st, dancer, i) ==
  LET char == dancer[i]
  IN IF IsUpper(char) THEN ScanState(Append(st.last, char), st.first, TRUE)
     ELSE IF IsSeparator(char)
     THEN IF st.prevUpper THEN ScanState(Append(st.last, char), st.first, FALSE)
          ELSE ScanState(st.last, Append(st.first, char), FALSE)
     ELSE IF st.prevUpper
     THEN ScanState(SubSeq(st.last, 1, Len(st.last) - 1),
                    st.first \o SubSeq(dancer, i - 1, i), FALSE)
     ELSE ScanState(st.last, Append(st.first, char), FALSE)

\* the value of the map callback for one dancer, once its scan is over
DancerResult(st) == removeAccents(st.first) \o <<" ">> \o removeAccents(st.last)

\* titleize(results[k]) for k from 0: makeString turns the undefined of a
\* missing element into the empty string
TitleizedResult(results, k) ==
  IF k + 1 <= Len(results) THEN titleize(results[k + 1]) ELSE <<>>

\* the template string cleanNames returns
JoinResults(results) ==
  TitleizedResult(results, 0) \o <<" ", "-", " ">> \o TitleizedResult(results, 1)

RECURSIVE ScanUpTo(_, _)
\* the accumulators and the flag after the first n characters of dancer
ScanUpTo(dancer, n) ==
  IF n = 0 THEN ScanState(<<>>, <<>>, FALSE)
  ELSE ScanStep(ScanUpTo(dancer, n - 1), dancer, n)

\* cleanNames as a function of its argument
cleanNames(names) ==
  IF IsUnknownCouple(names) THEN UnknownCouple
  ELSE LET parts == Split(names, BreakMarker)
           dancer(k) == stripTags(parts[k])
       IN JoinResults([k \in 1..Len(parts) |->
                         DancerResult(ScanUpTo(dancer(k), Len(dancer(k))))])

\* the display names of the source: surnames in upper case, one or several
\* words joined by a space, a hyphen or an apostrophe; capitalised forenames
Surnames ==
  {<<"D", "U", "P", "O", "N", "T">>,
   <<"M", "A", "R", "T", "I", "N">>,
   <<"L", "E", " ", "G", "A", "L">>,
   <<"D", "'", "A", "R", "C">>,
   <<"A", "B", "-", "B", "É">>}
Forenames == {<<"J", "e", "a", "n">>, <<"M", "a", "r", "i", "e">>}
Dancer(surname, forename) == [surname |-> surname, forename |-> forename]
Dancers == {Dancer(sn, fn) : sn \in Surnames, fn \in Forenames}
DisplayName(d) == d.surname \o <<" ">> \o d.forename

\* the characters of the strings the scan is run on, one or two per class
ScanChars == {"A", "É", " ", "-", "a"}

\* the arguments of cleanNames: two display names around the break marker,
\* one display name alone, the unknown couple, and every short string
NameInputs ==
  {DisplayName(d1) \o BreakMarker \o DisplayName(d2) : d1, d2 \in Dancers}
    \cup {DisplayName(d) : d \in Dancers}
    \cup {<<"C", "o", "u", "p", "l", "e", " ", "I", "n", "c", "o", "n", "n", "u">>}
    \cup SeqsUpTo(ScanChars, MaxScan)

\* cleanNames(names) up to the scan of the first dancer
CleanNames ==
  /\ npc = "idle"
  /\ IF IsUnknownCouple(nNames)
     THEN /\ nOut' = UnknownCouple
          /\ npc' = "done"
          /\ UNCHANGED <<nDancers, nIdx, nPos, nLast, nFirst, nPrevUpper>>
     ELSE /\ nDancers' = [k \in 1..Len(Split(nNames, BreakMarker)) |->
                            stripTags(Split(nNames, BreakMarker)[k])]
          /\ nIdx' = 1 /\ nPos' = 0
          /\ nLast' = <<>> /\ nFirst' = <<>> /\ nPrevUpper' = FALSE
          /\ npc' = "scan"
          /\ UNCHANGED nOut
  /\ UNCHANGED <<nNames, nResults>>
  /\ UNCHANGED <<seasonVars, listVars, detailVars, groupVars, titleVars>>

\* the next character of the dancer under scan
ScanNextChar ==
  /\ npc = "scan"
  /\ nPos < Len(nDancers[nIdx])
  /\ LET st == ScanStep(ScanState(nLast, nFirst, nPrevUpper), nDancers[nIdx], nPos + 1)
     IN /\ nLast' = st.last
        /\ nFirst' = st.first
        /\ nPrevUpper' = st.prevUpper
  /\ nPos' = nPos + 1
  /\ UNCHANGED <<nNames, nDancers, nIdx, nResults, nOut, npc>>
  /\ UNCHANGED <<seasonVars, listVars, detailVars, groupVars, titleVars>>

\* the scan of a dancer is over: its result is kept, and the next dancer
\* scanned from fresh accumulators
DancerDone ==
  /\ npc = "scan"
  /\ nPos = Len(nDancers[nIdx])
  /\ nResults' = Append(nResults, DancerResult(ScanState(nLast, nFirst, nPrevUpper)))
  /\ IF nIdx < Len(nDancers)
     THEN /\ nIdx' = nIdx + 1 /\ nPos' = 0
          /\ nLast' = <<>> /\ nFirst' = <<>> /\ nPrevUpper' = FALSE
          /\ UNCHANGED npc
     ELSE /\ npc' = "join"
          /\ UNCHANGED <<nIdx, nPos, nLast, nFirst, nPrevUpper>>
  /\ UNCHANGED <<nNames, nDancers, nOut>>
  /\ UNCHANGED <<seasonVars, listVars, detailVars, groupVars, titleVars>>

\* the return of cleanNames
JoinDancers ==
  /\ npc = "join"
  /\ nOut' = JoinResults(nResults)
  /\ npc' = "done"
  /\ UNCHANGED <<nNames, nDancers, nIdx, nPos, nLast, nFirst, nPrevUpper, nResults>>
  /\ UNCHANGED <<seasonVars, listVars, detailVars, groupVars, titleVars>>

(***************************************************************************)
(* Contest title cleaner: cleanContest.                                    *)
(***************************************************************************)
\* String.prototype.replace with a string pattern and '': the first
\* occurrence of sub is removed, the others stay
ReplaceFirst(s, sub) ==
  LET i == IndexOf(s, sub)
  IN IF i = 0 THEN s
     ELSE SubSeq(s, 1, i - 1) \o SubSeq(s, i + Len(sub), Len(s))

\* the pieces the labels are made of
LabelHead == <<"C", "o", "m", "p", "é", "t", "i", "t", "i", "o", "n", " ">>
PointsTail == <<"à", " ", "p", "o", "i", "n", "t", "s">>
NoPointsTail == <<"s", "a", "n", "s", " ", "p", "o", "i", "n", "t", "s">>

\* 'Compétition à points' and 'Compétition sans points'
PointsLabel == LabelHead \o PointsTail
NoPointsLabel == LabelHead \o NoPointsTail

cleanContest(original) ==
  trim(ReplaceFirst(ReplaceFirst(original, PointsLabel), NoPointsLabel))

\* the raw titles: the labels, their pieces, a blank and a word, put
\* together in every order
TitlePieces ==
  {PointsLabel, NoPointsLabel, LabelHead, PointsTail, NoPointsTail,
   <<" ">>, <<"L", "a", "t", "i", "n", "e", "s">>}
RawTitles == {Flatten(ps) : ps \in SeqsUpTo(TitlePieces, MaxPieces)}

\* cleanContest applied to a raw title, and then to what it returned
CleanContest ==
  /\ Len(tTitles) \in 1..2
  /\ tTitles' = Append(tTitles, cleanContest(tTitles[Len(tTitles)]))
  /\ UNCHANGED <<seasonVars, listVars, detailVars, groupVars, nameVars>>

(***************************************************************************)
(* Season filter.                                                          *)
(***************************************************************************)
InvalidDate == [valid |-> FALSE, year |-> 0, month |-> 0, day |-> 0]

Date(y, m, d) == [valid |-> TRUE, year |-> y, month |-> m, day |-> d]

IsLeap(y) == (y % 4 = 0 /\ y % 100 # 0) \/ y % 400 = 0

DaysInMonth(y, m) ==
  CASE m = 1 -> IF IsLeap(y) THEN 29 ELSE 28
    [] m \in {3, 5, 8, 10} -> 30
    [] OTHER -> 31

\* moment's format('YYYYMMDD') read as a number
FormatYMD(date) == date.year * 10000 + (date.month + 1) * 100 + date.day

isFirstHalfStrict(date) ==
  date.month < 7 \/ (date.month = 7 /\ date.day < 14)

isFirstHalf(date) ==
  date.month < 7 \/ (date.month = 7 /\ date.day <= 14)

isWithinSeasonByMonth(year, date) ==
  /\ date.valid
  /\ \/ (year = date.year /\ date.month >= 7)
     \/ (year + 1 = date.year /\ isFirstHalf(date))

\* an invalid moment answers NaN to year(), which equals no number
isWithinSeason(year, date) ==
  /\ date.valid
  /\ \/ (year = date.year /\ ~isFirstHalf(date))
     \/ (year + 1 = date.year /\ isFirstHalf(date))

Years == 2022..(2022 + YearSpan)

CalendarDates ==
  {dt \in {Date(y, m, d) : y \in Years, m \in 0..11, d \in 1..31} :
     dt.day <= DaysInMonth(dt.year, dt.month)}

\* one evaluation of isWithinSeason(sYear, sDate)
CheckSeason ==
  /\ ~sChecked
  /\ sChecked' = TRUE
  /\ sResult' = isWithinSeason(sYear, sDate)
  /\ UNCHANGED <<sYear, sDate>>
  /\ UNCHANGED <<listVars, detailVars, groupVars, nameVars, titleVars>>

(***************************************************************************)
(* Listing extraction: extractHeader, Competition, mergeCompetitions.      *)
(***************************************************************************)
\* what extractHeader returns for a dropped row
Undefined == [undefined |-> TRUE]

\* a listing row: link tells whether the last cell holds an anchor with an
\* href, place and date are the first two cells (the date as moment parses it)
Row(link, href, place, date) ==
  [link |-> link, href |-> href, place |-> place, date |-> date]

\* /NumManif=(\d+)$/ : positions of a NumManif= marker followed by digits
\* only, up to the end of the href
ManifMatches(href) ==
  {k \in 1..Len(href) :
     /\ href[k] = "NumManif="
     /\ k < Len(href)
     /\ \A i \in (k + 1)..Len(href) : href[i] \in Digits}

\* /\(\s*\w+\s*\)/ : the pairs (i, j) such that s[i..j] is a parenthesised
\* word, blanks allowed around the word
ParenMatches(s) ==
  {ij \in (1..Len(s)) \X (1..Len(s)) :
     /\ s[ij[1]] = "(" /\ s[ij[2]] = ")" /\ ij[1] < ij[2]
     /\ \E a, b \in (ij[1] + 1)..(ij[2] - 1) :
          /\ a <= b
          /\ \A k \in (ij[1] + 1)..(a - 1) : s[k] = " "
          /\ \A k \in a..b : s[k] \in WordChars
          /\ \A k \in (b + 1)..(ij[2] - 1) : s[k] = " "}

\* replace(/\(\s*\w+\s*\)/, '') : the leftmost match is removed
RemoveParen(s) ==
  IF ParenMatches(s) = {} THEN s
  ELSE LET m == CHOOSE ij \in ParenMatches(s) :
                  \A o \in ParenMatches(s) : ij[1] <= o[1]
       IN SubSeq(s, 1, m[1] - 1) \o SubSeq(s, m[2] + 1, Len(s))

\* the place of a row as extractHeader stores it
NormalizedPlace(cell) == trim(RemoveParen(titleize(toLowerCase(trim(cell)))))

\* sprintf of the details template with the manifestation id
DetailUrl(manif) == <<"details/">> \o manif

\* new Competition(data): the record of section 3, one data url, no contest
Competition(data) ==
  [id |-> data.id, place |-> data.place, date |-> data.date,
   provider |-> data.provider, dataUrls |-> <<data.url>>, contests |-> <<>>]

CompetitionIdWithUrl(place, date, url) ==
  md5(slugify(place) \o url, FormatYMD(date))

CompetitionId(place, date, url) == md5(slugify(place), FormatYMD(date))

extractHeaderNoSeason(line, year) ==
  IF ~line.link \/ line.href = <<>> THEN Undefined
  ELSE IF ManifMatches(line.href) = {} THEN Undefined
  ELSE LET k == CHOOSE k \in ManifMatches(line.href) : TRUE
           url == DetailUrl(SubSeq(line.href, k + 1, Len(line.href)))
           place == NormalizedPlace(line.place)
       IN IF ~line.date.valid THEN Undefined
          ELSE Competition([place |-> place, date |-> line.date, url |-> url,
                            provider |-> "ffds",
                            id |-> CompetitionId(place, line.date, url)])

extractHeader(line, year) ==
  IF ~line.link \/ line.href = <<>> THEN Undefined
  ELSE IF ManifMatches(line.href) = {} THEN Undefined
  ELSE LET k == CHOOSE k \in ManifMatches(line.href) : TRUE
           url == DetailUrl(SubSeq(line.href, k + 1, Len(line.href)))
           place == NormalizedPlace(line.place)
       IN IF ~isWithinSeason(year, line.date) THEN Undefined
          ELSE Competition([place |-> place, date |-> line.date, url |-> url,
                            provider |-> "ffds",
                            id |-> CompetitionId(place, line.date, url)])

RECURSIVE mergeCompetitions(_)
\* section 4.5: missing entries dropped, one record per id in order of first
\* occurrence, carrying the first member's fields and the union of the
\* members' dataUrls in first-seen order
mergeCompetitions(list) ==
  IF list = <<>> THEN <<>>
  ELSE LET acc == mergeCompetitions(SubSeq(list, 1, Len(list) - 1))
           c == list[Len(list)]
       IN IF c = Undefined THEN acc
          ELSE IF \E i \in 1..Len(acc) : acc[i].id = c.id
          THEN [i \in 1..Len(acc) |->
                  IF acc[i].id = c.id
                  THEN [acc[i] EXCEPT !.dataUrls = Uniq(@ \o c.dataUrls)]
                  ELSE acc[i]]
          ELSE Append(acc, c)

(***************************************************************************)
(* listResults.                                                            *)
(***************************************************************************)
ListingUrlByCalendarYear(year, date) ==
  IF date.valid /\ year = date.year THEN "list" ELSE "list?Archives"

\* the listing endpoint, and its archive variant
ListingUrl(year, date) ==
  IF isWithinSeason(year, date) THEN "list" ELSE "list?Archives"

\* dates around the season boundary, for the clock and for the rows
BoundaryDates == {Date(2023, 7, 14), Date(2023, 7, 15), Date(2024, 7, 14)}

ListYears == {2022, 2023}

ManifHrefs ==
  {<<"manif?", "NumManif=", "1">>, <<"manif?", "NumManif=", "2">>}

RowPlaces == {<<"a">>, <<" ", "A", " ", "(", "b", ")">>, <<"b">>}

\* rows with a manifestation id, every place on every date; rows without a
\* link, rows whose link carries no id at its end, rows with no readable date
Rows ==
  {Row(TRUE, h, p, d) : h \in ManifHrefs, p \in RowPlaces, d \in BoundaryDates} \cup
  {Row(TRUE, <<"manif?", "NumManif=", "1", "&">>, <<"a">>, d) : d \in BoundaryDates} \cup
  {Row(FALSE, <<>>, <<"a">>, d) : d \in BoundaryDates} \cup
  {Row(TRUE, h, <<"a">>, InvalidDate) : h \in ManifHrefs}

\* listResults(year) up to its request
ListResults ==
  /\ lpc = "idle"
  /\ \E year \in ListYears :
       /\ lYear' = year
       /\ lFetches' = Append(lFetches, ListingUrl(year, now))
  /\ lpc' = "fetching"
  /\ UNCHANGED <<now, lRows, lResult>>
  /\ UNCHANGED <<seasonVars, detailVars, groupVars, nameVars, titleVars>>

\* the request resolves with a page of rows: every row goes through
\* extractHeader and the list through mergeCompetitions
ListingFetched ==
  /\ lpc = "fetching"
  /\ \E rows \in SeqsUpTo(Rows, MaxRows) :
       /\ lRows' = rows
       /\ lResult' =
            mergeCompetitions([i \in 1..Len(rows) |-> extractHeader(rows[i], lYear)])
  /\ lpc' = "resolved"
  /\ UNCHANGED <<now, lYear, lFetches>>
  /\ UNCHANGED <<seasonVars, detailVars, groupVars, nameVars, titleVars>>

\* the request fails: handleRequestError rethrows, the call is rejected
ListingFailed ==
  /\ lpc = "fetching"
  /\ lpc' = "rejected"
  /\ UNCHANGED <<now, lYear, lFetches, lRows, lResult>>
  /\ UNCHANGED <<seasonVars, detailVars, groupVars, nameVars, titleVars>>

(***************************************************************************)
(* Serial task runner and request error handler of lib/utils, after        *)
(* sections 4.6 and 7 of the specification.  A task settles with an        *)
(* outcome [ok, value]; the runner is in state "running" (invoke is the    *)
(* index of the task it has just invoked), "resolved" or "rejected".       *)
(***************************************************************************)
Resolved(value) == [ok |-> TRUE, value |-> value]
Rejected == [ok |-> FALSE, value |-> <<>>]

\* the catch handler: the failure is wrapped and thrown again
handleRequestError(outcome) == Rejected

\* runSerially(tasks): the first task is invoked, if there is one
RunSeriallyStart(tasks) ==
  IF tasks = <<>>
  THEN [state |-> "resolved", results |-> <<>>, invoke |-> 0]
  ELSE [state |-> "running", results |-> <<>>, invoke |-> 1]

\* the running task settles: a failure rejects the whole and invokes
\* nothing more, a success is recorded and the next task, if any, invoked
RunSeriallySettle(tasks, results, outcome) ==
  IF ~outcome.ok
  THEN [state |-> "rejected", results |-> results, invoke |-> 0]
  ELSE IF Len(results) + 1 = Len(tasks)
  THEN [state |-> "resolved", results |-> Append(results, outcome.value), invoke |-> 0]
  ELSE [state |-> "running", results |-> Append(results, outcome.value),
        invoke |-> Len(results) + 2]

(***************************************************************************)
(* getDetails and extractRanking.                                          *)
(***************************************************************************)
DetailUrls == {"d1", "d2"}
RankLinks == {"r1", "r2"}

\* a detail page is the sequence of the hrefs of its td > a anchors
DetailPages == SeqsUpTo(RankLinks, MaxLinks)

\* a ranking page: the text of its h3 and the rows of its heats in document
\* order; a row holds the text of its first cell, read as a number, and the
\* html of its third cell, or no third cell at all
RankRow(cell, couple, rank) == [cell |-> cell, couple |-> couple, rank |-> rank]

\* the couple cells of the pages: two couples, and the first of them again
\* with a surname written without its accent
RankCells ==
  <<DisplayName(Dancer(<<"D", "U", "P", "O", "N", "T">>, <<"J", "e", "a", "n">>))
      \o BreakMarker
      \o DisplayName(Dancer(<<"A", "B", "-", "B", "É">>, <<"M", "a", "r", "i", "e">>)),
    DisplayName(Dancer(<<"M", "A", "R", "T", "I", "N">>, <<"J", "e", "a", "n">>))
      \o BreakMarker
      \o DisplayName(Dancer(<<"L", "E", " ", "G", "A", "L">>, <<"M", "a", "r", "i", "e">>)),
    DisplayName(Dancer(<<"D", "U", "P", "O", "N", "T">>, <<"J", "e", "a", "n">>))
      \o BreakMarker
      \o DisplayName(Dancer(<<"A", "B", "-", "B", "E">>, <<"M", "a", "r", "i", "e">>))>>

RankingPages ==
  {[title |-> PointsLabel \o <<" ", "A">>, rows |-> <<>>],
   [title |-> <<" ", "B", " ">> \o NoPointsLabel,
    rows |-> <<RankRow(TRUE, RankCells[1], 1), RankRow(TRUE, RankCells[2], 2),
               RankRow(TRUE, RankCells[3], 3)>>],
   [title |-> <<"C">>,
    rows |-> <<RankRow(TRUE, RankCells[1], 1), RankRow(FALSE, <<>>, 2)>>]}

\* cleanNames on the couple cells of the pages
CleanedCells ==
  [c \in {RankCells[i] : i \in 1..Len(RankCells)} |-> cleanNames(c)]

\* a response of the network: a body, or a failure
Response(ok, body) == [ok |-> ok, body |-> body]

RECURSIVE RankingResultsLastWins(_)
RankingResultsLastWins(rows) ==
  IF rows = <<>> THEN <<>>
  ELSE LET acc == RankingResultsLastWins(SubSeq(rows, 1, Len(rows) - 1))
           row == rows[Len(rows)]
           names == CleanedCells[row.couple]
       IN IF \E i \in 1..Len(acc) : acc[i].couple = names
          THEN [i \in 1..Len(acc) |->
                  IF acc[i].couple = names
                  THEN [couple |-> names, rank |-> row.rank] ELSE acc[i]]
          ELSE Append(acc, [couple |-> names, rank |-> row.rank])

RECURSIVE RankingResults(_)
\* the results mapping after the rows of a ranking page, row after row: the
\* normalised names of a row get its rank unless they are in results already
RankingResults(rows) ==
  IF rows = <<>> THEN <<>>
  ELSE LET acc == RankingResults(SubSeq(rows, 1, Len(rows) - 1))
           row == rows[Len(rows)]
           names == CleanedCells[row.couple]
       IN IF \E i \in 1..Len(acc) : acc[i].couple = names THEN acc
          ELSE Append(acc, [couple |-> names, rank |-> row.rank])

\* the then-callback of extractRanking: cleanNames throws on a row without
\* a couple cell, which rejects the extraction
extractRanking(body) ==
  IF \E i \in 1..Len(body.rows) : ~body.rows[i].cell THEN Rejected
  ELSE Resolved([title |-> cleanContest(body.title),
                 results |-> RankingResults(body.rows)])

\* extractRanking on the ranking pages
ExtractedRankings == [body \in RankingPages |-> extractRanking(body)]

\* the links of a detail page, each prefixed with the provider's url
ExtractLinks(body) == [i \in 1..Len(body) |-> <<"url/", body[i]>>]

ReverseOrder(c) ==
  [i \in 1..Len(c.dataUrls) |-> c.dataUrls[Len(c.dataUrls) + 1 - i]]

\* competition.dataUrls.map(url => () => ...): one task per url, in order
DetailTasks(c) == c.dataUrls

DetailTaskSwallowingFailure(resp) ==
  IF resp.ok THEN Resolved(ExtractLinks(resp.body)) ELSE Resolved(<<>>)

\* one detail task: request, then the links of the page, catch
DetailTask(resp) ==
  IF resp.ok THEN Resolved(ExtractLinks(resp.body)) ELSE handleRequestError(resp)

\* one ranking task: extractRanking, catch
RankingTask(resp) ==
  IF resp.ok
  THEN IF ExtractedRankings[resp.body].ok THEN ExtractedRankings[resp.body]
       ELSE handleRequestError(resp)
  ELSE handleRequestError(resp)

FlattenOnly(rawUrls) == Flatten(rawUrls)

\* flow(flatten, uniq)(rawUrls)
RankingUrls(rawUrls) == Uniq(Flatten(rawUrls))

\* request({url}): one more request in flight
Issue(kind, url) ==
  /\ fetchLog' = Append(fetchLog, [kind |-> kind, url |-> url])
  /\ inflight' = (inflight \ {Len(fetchLog)}) \cup {Len(fetchLog) + 1}

\* the then-callback of the first runSerially: the contests are emptied,
\* and the rankings of the distinct urls requested one after the other
AfterDetails(rawUrls) ==
  LET urls == RankingUrls(rawUrls)
      st == RunSeriallyStart(urls)
  IN /\ dRawUrls' = rawUrls
     /\ dUrls' = urls
     /\ competition' = [competition EXCEPT !.contests = <<>>]
     /\ dTasks' = urls
     /\ dResults' = <<>>
     /\ IF st.state = "resolved"
        THEN /\ dpc' = "resolved"
             /\ fetchLog' = fetchLog
             /\ inflight' = inflight \ {Len(fetchLog)}
        ELSE /\ dpc' = "rankings"
             /\ Issue("ranking", urls[st.invoke])

\* getDetails(competition) up to its first request, once the previous call
\* on the competition has ended; the logs of the network start anew with
\* every call
GetDetails ==
  /\ dpc \in {"idle", "resolved", "rejected"}
  /\ doneLog' = <<>>
  /\ UNCHANGED <<seasonVars, listVars, groupVars, nameVars, titleVars>>
  /\ LET tasks == DetailTasks(competition)
         st == RunSeriallyStart(tasks)
     IN IF st.state = "resolved"
        THEN LET urls == RankingUrls(st.results)
             IN /\ dRawUrls' = st.results
                /\ dUrls' = urls
                /\ competition' = [competition EXCEPT !.contests = <<>>]
                /\ dTasks' = urls
                /\ dResults' = <<>>
                /\ dpc' = "resolved"
                /\ fetchLog' = <<>>
                /\ inflight' = {}
        ELSE /\ dpc' = "details"
             /\ dTasks' = tasks
             /\ dResults' = <<>>
             /\ dRawUrls' = <<>>
             /\ dUrls' = <<>>
             /\ fetchLog' = <<[kind |-> "detail", url |-> tasks[st.invoke]]>>
             /\ inflight' = {1}
             /\ UNCHANGED competition

\* the detail task in flight settles with outcome: runSerially rejects, goes
\* on with the next detail page, or hands the links over to the callback
DetailSettled(outcome) ==
  LET st == RunSeriallySettle(dTasks, dResults, outcome)
  IN CASE st.state = "rejected" ->
            /\ dpc' = "rejected"
            /\ inflight' = inflight \ {Len(fetchLog)}
            /\ UNCHANGED <<competition, dTasks, dResults, dRawUrls, dUrls, fetchLog>>
       [] st.state = "running" ->
            /\ dResults' = st.results
            /\ Issue("detail", dTasks[st.invoke])
            /\ UNCHANGED <<competition, dpc, dTasks, dRawUrls, dUrls>>
       [] st.state = "resolved" -> AfterDetails(st.results)

\* the request of a detail page resolves with a page
DetailFetched ==
  /\ dpc = "details"
  /\ \E body \in DetailPages :
       /\ doneLog' = Append(doneLog, [idx |-> Len(fetchLog), ok |-> TRUE, body |-> body])
       /\ DetailSettled(DetailTask(Response(TRUE, body)))
  /\ UNCHANGED <<seasonVars, listVars, groupVars, nameVars, titleVars>>

\* the request of a detail page fails
DetailFailed ==
  /\ dpc = "details"
  /\ doneLog' = Append(doneLog, [idx |-> Len(fetchLog), ok |-> FALSE, body |-> <<>>])
  /\ DetailSettled(DetailTask(Response(FALSE, <<>>)))
  /\ UNCHANGED <<seasonVars, listVars, groupVars, nameVars, titleVars>>

RankingSettledAttachingEach(outcome) ==
  LET st == RunSeriallySettle(dTasks, dResults, outcome)
  IN CASE st.state = "rejected" ->
            /\ dpc' = "rejected"
            /\ inflight' = inflight \ {Len(fetchLog)}
            /\ UNCHANGED <<competition, dTasks, dResults, dRawUrls, dUrls, fetchLog>>
       [] st.state = "running" ->
            /\ competition' = [competition EXCEPT !.contests = st.results]
            /\ dResults' = st.results
            /\ Issue("ranking", dTasks[st.invoke])
            /\ UNCHANGED <<dpc, dTasks, dRawUrls, dUrls>>
       [] st.state = "resolved" ->
            /\ competition' = [competition EXCEPT !.contests = st.results]
            /\ dResults' = st.results
            /\ dpc' = "resolved"
            /\ inflight' = inflight \ {Len(fetchLog)}
            /\ UNCHANGED <<dTasks, dRawUrls, dUrls, fetchLog>>

\* the ranking task in flight settles with outcome: runSerially rejects,
\* goes on with the next ranking, or hands the contests over to the
\* callback, which attaches them to the competition
RankingSettled(outcome) ==
  LET st == RunSeriallySettle(dTasks, dResults, outcome)
  IN CASE st.state = "rejected" ->
            /\ dpc' = "rejected"
            /\ inflight' = inflight \ {Len(fetchLog)}
            /\ UNCHANGED <<competition, dTasks, dResults, dRawUrls, dUrls, fetchLog>>
       [] st.state = "running" ->
            /\ dResults' = st.results
            /\ Issue("ranking", dTasks[st.invoke])
            /\ UNCHANGED <<competition, dpc, dTasks, dRawUrls, dUrls>>
       [] st.state = "resolved" ->
            /\ competition' = [competition EXCEPT !.contests = st.results]
            /\ dResults' = st.results
            /\ dpc' = "resolved"
            /\ inflight' = inflight \ {Len(fetchLog)}
            /\ UNCHANGED <<dTasks, dRawUrls, dUrls, fetchLog>>

\* the request of a ranking page resolves with a page
RankingFetched ==
  /\ dpc = "rankings"
  /\ \E body \in RankingPages :
       /\ doneLog' = Append(doneLog, [idx |-> Len(fetchLog), ok |-> TRUE, body |-> body])
       /\ RankingSettled(RankingTask(Response(TRUE, body)))
  /\ UNCHANGED <<seasonVars, listVars, groupVars, nameVars, titleVars>>

\* the request of a ranking page fails
RankingFailed ==
  /\ dpc = "rankings"
  /\ doneLog' = Append(doneLog, [idx |-> Len(fetchLog), ok |-> FALSE, body |-> <<>>])
  /\ RankingSettled(RankingTask(Response(FALSE, <<>>)))
  /\ UNCHANGED <<seasonVars, listVars, groupVars, nameVars, titleVars>>

(***************************************************************************)
(* Club directory: searchGroups and getGroupCouples.                       *)
(***************************************************************************)
\* this.clubs: null after construction, then the list of {id, name}
NoClubs == [loaded |-> FALSE, list |-> <<>>]
Clubs(list) == [loaded |-> TRUE, list |-> list]

\* the callers of the provider: a caller has at most one call under way
Callers == {"c1", "c2"}

\* a call: the operation and its argument, where it stands ("idle" once it
\* has ended), the requests it has issued, how it ended and with what
Call(op, arg, pc, fetches, outcome, result) ==
  [op |-> op, arg |-> arg, pc |-> pc, fetches |-> fetches,
   outcome |-> outcome, result |-> result]

NoCall == Call("none", <<>>, "idle", <<>>, "none", <<>>)

ListingRequest == [target |-> "clubs", id |-> ""]
RosterRequest(id) == [target |-> "couples", id |-> id]

\* the options of the club_id select of the listing page
ClubOptions ==
  {[value |-> "1", text |-> <<"a">>],
   [value |-> "2", text |-> <<"A", " ">>],
   [value |-> "3", text |-> <<"b">>]}

ClubListings == SeqsUpTo(ClubOptions, MaxClubs)

\* the arguments of the calls: queries of searchGroups, group names of
\* getGroupCouples
SearchArgs == {<<>>, <<" ", "A">>}
GroupArgs == {<<>>, <<" ", "A">>, <<"c">>}

\* a roster page is the sequence of its couples, named by their normalised
\* names
RosterPages == {<<"x", "y">>}

\* String.prototype.includes
Includes(s, sub) ==
  \E i \in 0..(Len(s) - Len(sub)) : SubSeq(s, i + 1, i + Len(sub)) = sub

ClubsNonEmpty(c) == c.loaded /\ c.list # <<>>

\* if (this.clubs): null is falsy, every array is truthy
ClubsAvailable(c) == c.loaded

ClubsEmptiedOnError(c) == [loaded |-> TRUE, list |-> <<>>]

\* this.clubs once the request of the listing page has failed: the catch
\* handler does not touch it
ClubsOnError(c) == c

ClubsFirstWriteWins(list) ==
  IF clubs.loaded THEN clubs ELSE [loaded |-> TRUE, list |-> list]

\* this.clubs once the listing page has arrived
ClubsOnListing(list) == Clubs(list)

\* the clubs of a listing page: the value and the trimmed text of each option
ExtractClubs(body) ==
  [i \in 1..Len(body) |-> [id |-> body[i].value, name |-> trim(body[i].text)]]

\* search() of searchGroups: the names of the clubs that contain the query
SearchNames(list, searched) ==
  LET searchedStr == toLowerCase(trim(searched))
      keep(club) == Includes(toLowerCase(club.name), searchedStr)
      kept == SelectSeq(list, keep)
  IN [i \in 1..Len(kept) |-> kept[i].name]

\* Joi.string().empty().required(): the empty string is refused
ValidGroup(group) == group # <<>>

GroupKeyCaseSensitive(group) == trim(group)

\* group.trim().toLowerCase()
GroupKey(group) == toLowerCase(trim(group))

\* this.clubs.find(...): the indices of the clubs named as the group
MatchingClubs(list, group) ==
  {i \in 1..Len(list) : toLowerCase(list[i].name) = GroupKey(group)}

\* the first of them
FoundClub(list, group) ==
  list[CHOOSE i \in MatchingClubs(list, group) :
         \A j \in MatchingClubs(list, group) : i <= j]

\* extractNames: one normalised name per row of the page
extractNames(body) == body

\* another caller has a call under way
OtherBusy(p) == \E q \in Callers \ {p} : calls[q].pc # "idle"

\* search() of getGroupCouples on the cache list, for the call c of p
SearchCouples(p, c, list) ==
  IF MatchingClubs(list, c.arg) = {}
  THEN calls' = [calls EXCEPT ![p] =
                   [c EXCEPT !.pc = "idle", !.outcome = "group-not-found"]]
  ELSE calls' = [calls EXCEPT ![p] =
                   [c EXCEPT !.pc = "roster",
                             !.fetches = Append(@, RosterRequest(FoundClub(list, c.arg).id))]]

\* searchGroups(searched) by caller p: answered from the cache when it is
\* available, and up to the request of the listing page otherwise
SearchGroups ==
  /\ \E p \in Callers, searched \in SearchArgs :
       /\ calls[p].pc = "idle"
       /\ overlap' = (overlap \/ OtherBusy(p))
       /\ IF ClubsAvailable(clubs)
          THEN calls' = [calls EXCEPT ![p] =
                 Call("searchGroups", searched, "idle", <<>>, "resolved",
                      SearchNames(clubs.list, searched))]
          ELSE calls' = [calls EXCEPT ![p] =
                 Call("searchGroups", searched, "listing", <<ListingRequest>>,
                      "pending", <<>>)]
  /\ UNCHANGED clubs
  /\ UNCHANGED <<seasonVars, listVars, detailVars, nameVars, titleVars>>

\* getGroupCouples(group) by caller p: validation, then the search in the
\* cache when it is available, and searchGroups('') up to its request
\* otherwise
GetGroupCouples ==
  /\ \E p \in Callers, group \in GroupArgs :
       /\ calls[p].pc = "idle"
       /\ overlap' = (overlap \/ OtherBusy(p))
       /\ IF ~ValidGroup(group)
          THEN calls' = [calls EXCEPT ![p] =
                 Call("getGroupCouples", group, "idle", <<>>, "validation-error", <<>>)]
          ELSE IF ClubsAvailable(clubs)
          THEN SearchCouples(p, Call("getGroupCouples", group, "idle", <<>>,
                                     "pending", <<>>), clubs.list)
          ELSE calls' = [calls EXCEPT ![p] =
                 Call("getGroupCouples", group, "listing", <<ListingRequest>>,
                      "pending", <<>>)]
  /\ UNCHANGED clubs
  /\ UNCHANGED <<seasonVars, listVars, detailVars, nameVars, titleVars>>

\* the listing page requested by p arrives: the cache is written, and the
\* call goes on with its search
ClubsFetched ==
  /\ \E p \in Callers, body \in ClubListings :
       /\ calls[p].pc = "listing"
       /\ clubs' = ClubsOnListing(ExtractClubs(body))
       /\ IF calls[p].op = "searchGroups"
          THEN calls' = [calls EXCEPT ![p] =
                 [@ EXCEPT !.pc = "idle", !.outcome = "resolved",
                           !.result = SearchNames(ExtractClubs(body), calls[p].arg)]]
          ELSE SearchCouples(p, calls[p], ExtractClubs(body))
  /\ UNCHANGED overlap
  /\ UNCHANGED <<seasonVars, listVars, detailVars, nameVars, titleVars>>

\* the request of the listing page fails: the call is rejected
ClubsFailed ==
  /\ \E p \in Callers :
       /\ calls[p].pc = "listing"
       /\ calls' = [calls EXCEPT ![p] =
                      [@ EXCEPT !.pc = "idle", !.outcome = "fetch-error"]]
  /\ clubs' = ClubsOnError(clubs)
  /\ UNCHANGED overlap
  /\ UNCHANGED <<seasonVars, listVars, detailVars, nameVars, titleVars>>

\* the roster requested by p arrives
RosterFetched ==
  /\ \E p \in Callers, body \in RosterPages :
       /\ calls[p].pc = "roster"
       /\ calls' = [calls EXCEPT ![p] =
                      [@ EXCEPT !.pc = "idle", !.outcome = "resolved",
                                !.result = extractNames(body)]]
  /\ UNCHANGED <<clubs, overlap>>
  /\ UNCHANGED <<seasonVars, listVars, detailVars, nameVars, titleVars>>

\* the request of the roster fails: the call is rejected
RosterFailed ==
  /\ \E p \in Callers :
       /\ calls[p].pc = "roster"
       /\ calls' = [calls EXCEPT ![p] =
                      [@ EXCEPT !.pc = "idle", !.outcome = "fetch-error"]]
  /\ UNCHANGED <<clubs, overlap>>
  /\ UNCHANGED <<seasonVars, listVars, detailVars, nameVars, titleVars>>

(***************************************************************************)
(* Specifications: one per part of the provider, the other parts left in   *)
(* their state after construction.                                         *)
(***************************************************************************)
\* the season filter applied to one year and one date
InitSeason ==
  /\ sYear \in Years
  /\ sDate \in CalendarDates \cup {InvalidDate}
  /\ sChecked = FALSE /\ sResult = FALSE
  /\ now = Date(2023, 7, 14)
  /\ lpc = "idle" /\ lYear = 0 /\ lFetches = <<>> /\ lRows = <<>> /\ lResult = <<>>
  /\ competition = [dataUrls |-> <<>>, contests |-> <<>>]
  /\ dpc = "idle" /\ dTasks = <<>> /\ dResults = <<>> /\ dRawUrls = <<>>
  /\ dUrls = <<>>
  /\ fetchLog = <<>> /\ inflight = {} /\ doneLog = <<>>
  /\ clubs = NoClubs
  /\ calls = [p \in Callers |-> NoCall]
  /\ overlap = FALSE
  /\ nNames = <<>> /\ nDancers = <<>> /\ nIdx = 0 /\ nPos = 0
  /\ nLast = <<>> /\ nFirst = <<>> /\ nPrevUpper = FALSE
  /\ nResults = <<>> /\ nOut = <<>> /\ npc = "idle"
  /\ tTitles = <<>>

NextSeason == CheckSeason

SpecSeason == InitSeason /\ [][NextSeason]_vars

\* listResults called once, at a date around the season boundary
InitList ==
  /\ sYear = 2022 /\ sDate = InvalidDate /\ sChecked = FALSE /\ sResult = FALSE
  /\ now \in BoundaryDates
  /\ lpc = "idle" /\ lYear = 0 /\ lFetches = <<>> /\ lRows = <<>> /\ lResult = <<>>
  /\ competition = [dataUrls |-> <<>>, contests |-> <<>>]
  /\ dpc = "idle" /\ dTasks = <<>> /\ dResults = <<>> /\ dRawUrls = <<>>
  /\ dUrls = <<>>
  /\ fetchLog = <<>> /\ inflight = {} /\ doneLog = <<>>
  /\ clubs = NoClubs
  /\ calls = [p \in Callers |-> NoCall]
  /\ overlap = FALSE
  /\ nNames = <<>> /\ nDancers = <<>> /\ nIdx = 0 /\ nPos = 0
  /\ nLast = <<>> /\ nFirst = <<>> /\ nPrevUpper = FALSE
  /\ nResults = <<>> /\ nOut = <<>> /\ npc = "idle"
  /\ tTitles = <<>>

NextList ==
  \/ ListResults
  \/ ListingFetched
  \/ ListingFailed

SpecList == InitList /\ [][NextList]_vars

\* getDetails called on a competition as listResults or the caller's store
\* hands it over, one call after the other
InitDetails ==
  /\ sYear = 2022 /\ sDate = InvalidDate /\ sChecked = FALSE /\ sResult = FALSE
  /\ now = Date(2023, 7, 14)
  /\ lpc = "idle" /\ lYear = 0 /\ lFetches = <<>> /\ lRows = <<>> /\ lResult = <<>>
  /\ competition \in [dataUrls : SeqsUpTo(DetailUrls, MaxDataUrls), contests : {<<>>}]
  /\ dpc = "idle" /\ dTasks = <<>> /\ dResults = <<>> /\ dRawUrls = <<>>
  /\ dUrls = <<>>
  /\ fetchLog = <<>> /\ inflight = {} /\ doneLog = <<>>
  /\ clubs = NoClubs
  /\ calls = [p \in Callers |-> NoCall]
  /\ overlap = FALSE
  /\ nNames = <<>> /\ nDancers = <<>> /\ nIdx = 0 /\ nPos = 0
  /\ nLast = <<>> /\ nFirst = <<>> /\ nPrevUpper = FALSE
  /\ nResults = <<>> /\ nOut = <<>> /\ npc = "idle"
  /\ tTitles = <<>>

NextDetails ==
  \/ GetDetails
  \/ DetailFetched
  \/ DetailFailed
  \/ RankingFetched
  \/ RankingFailed

SpecDetails == InitDetails /\ [][NextDetails]_vars

\* the same, every request issued being answered in the end, by a page or
\* by a failure
SpecDetailsFair ==
  /\ InitDetails
  /\ [][NextDetails]_vars
  /\ WF_vars(DetailFailed \/ DetailFetched)
  /\ WF_vars(RankingFailed \/ RankingFetched)

\* searchGroups and getGroupCouples called by the callers, in any order and
\* overlapping or not, on a provider just constructed
InitGroups ==
  /\ sYear = 2022 /\ sDate = InvalidDate /\ sChecked = FALSE /\ sResult = FALSE
  /\ now = Date(2023, 7, 14)
  /\ lpc = "idle" /\ lYear = 0 /\ lFetches = <<>> /\ lRows = <<>> /\ lResult = <<>>
  /\ competition = [dataUrls |-> <<>>, contests |-> <<>>]
  /\ dpc = "idle" /\ dTasks = <<>> /\ dResults = <<>> /\ dRawUrls = <<>>
  /\ dUrls = <<>>
  /\ fetchLog = <<>> /\ inflight = {} /\ doneLog = <<>>
  /\ clubs = NoClubs
  /\ calls = [p \in Callers |-> NoCall]
  /\ overlap = FALSE
  /\ nNames = <<>> /\ nDancers = <<>> /\ nIdx = 0 /\ nPos = 0
  /\ nLast = <<>> /\ nFirst = <<>> /\ nPrevUpper = FALSE
  /\ nResults = <<>> /\ nOut = <<>> /\ npc = "idle"
  /\ tTitles = <<>>

NextGroups ==
  \/ SearchGroups
  \/ GetGroupCouples
  \/ ClubsFetched
  \/ ClubsFailed
  \/ RosterFetched
  \/ RosterFailed

SpecGroups == InitGroups /\ [][NextGroups]_vars

\* cleanNames called once on one argument
InitNames ==
  /\ sYear = 2022 /\ sDate = InvalidDate /\ sChecked = FALSE /\ sResult = FALSE
  /\ now = Date(2023, 7, 14)
  /\ lpc = "idle" /\ lYear = 0 /\ lFetches = <<>> /\ lRows = <<>> /\ lResult = <<>>
  /\ competition = [dataUrls |-> <<>>, contests |-> <<>>]
  /\ dpc = "idle" /\ dTasks = <<>> /\ dResults = <<>> /\ dRawUrls = <<>>
  /\ dUrls = <<>>
  /\ fetchLog = <<>> /\ inflight = {} /\ doneLog = <<>>
  /\ clubs = NoClubs
  /\ calls = [p \in Callers |-> NoCall]
  /\ overlap = FALSE
  /\ nNames \in NameInputs
  /\ nDancers = <<>> /\ nIdx = 0 /\ nPos = 0
  /\ nLast = <<>> /\ nFirst = <<>> /\ nPrevUpper = FALSE
  /\ nResults = <<>> /\ nOut = <<>> /\ npc = "idle"
  /\ tTitles = <<>>

NextNames ==
  \/ CleanNames
  \/ ScanNextChar
  \/ DancerDone
  \/ JoinDancers

SpecNames == InitNames /\ [][NextNames]_vars

\* cleanContest applied twice in a row to one raw title
InitTitles ==
  /\ sYear = 2022 /\ sDate = InvalidDate /\ sChecked = FALSE /\ sResult = FALSE
  /\ now = Date(2023, 7, 14)
  /\ lpc = "idle" /\ lYear = 0 /\ lFetches = <<>> /\ lRows = <<>> /\ lResult = <<>>
  /\ competition = [dataUrls |-> <<>>, contests |-> <<>>]
  /\ dpc = "idle" /\ dTasks = <<>> /\ dResults = <<>> /\ dRawUrls = <<>>
  /\ dUrls = <<>>
  /\ fetchLog = <<>> /\ inflight = {} /\ doneLog = <<>>
  /\ clubs = NoClubs
  /\ calls = [p \in Callers |-> NoCall]
  /\ overlap = FALSE
  /\ nNames = <<>> /\ nDancers = <<>> /\ nIdx = 0 /\ nPos = 0
  /\ nLast = <<>> /\ nFirst = <<>> /\ nPrevUpper = FALSE
  /\ nResults = <<>> /\ nOut = <<>> /\ npc = "idle"
  /\ tTitles \in {<<t>> : t \in RawTitles}

NextTitles == CleanContest

SpecTitles == InitTitles /\ [][NextTitles]_vars

(***************************************************************************)
(* Vocabulary of the properties: the season as the glossary defines it and *)
(* the rows of a listing as the properties speak of them.                  *)
(***************************************************************************)
\* a is the same day as b or an earlier one
DateLE(a, b) ==
  \/ a.year < b.year
  \/ a.year = b.year /\ a.month < b.month
  \/ a.year = b.year /\ a.month = b.month /\ a.day <= b.day

\* d lies between August 15 of y and August 14 of y + 1, both included
InSeason(y, d) ==
  d.valid /\ DateLE(Date(y, 7, 15), d) /\ DateLE(d, Date(y + 1, 7, 14))

\* the row has a detail link ending with a numeric manifestation id
HasManifId(row) ==
  /\ row.link
  /\ \E k \in 1..(Len(row.href) - 1) :
       /\ row.href[k] = "NumManif="
       /\ \A i \in (k + 1)..Len(row.href) : row.href[i] \in Digits

\* the detail url of a row that has a manifestation id
RowUrl(row) ==
  LET k == CHOOSE k \in 1..Len(row.href) : row.href[k] = "NumManif="
  IN <<"details/">> \o SubSeq(row.href, k + 1, Len(row.href))

\* the rows listResults(year) is to keep
KeptRow(row, year) == HasManifId(row) /\ InSeason(year, row.date)

\* the requests of one kind that the call has issued, in order
IsDetailFetch(f) == f.kind = "detail"
IsRankingFetch(f) == f.kind = "ranking"
DetailFetches == SelectSeq(fetchLog, IsDetailFetch)
RankingFetches == SelectSeq(fetchLog, IsRankingFetch)

\* the index of the first occurrence of x in s
FirstIndex(s, x) == CHOOSE i \in 1..Len(s) : s[i] = x /\ \A j \in 1..(i - 1) : s[j] # x

(***************************************************************************)
(* C1: within one getDetails call at most one request is in flight, a      *)
(* request starts only after the previous one has completed, the detail    *)
(* pages are requested in the order of dataUrls, and no ranking page is    *)
(* requested before every detail page of dataUrls has completed.           *)
(***************************************************************************)
C1_FetchesStrictlySequential ==
  /\ Cardinality(inflight) <= 1
  /\ inflight \subseteq {Len(fetchLog)}
  /\ Len(doneLog) = Len(fetchLog) - Cardinality(inflight)
  /\ \A i \in 1..Len(doneLog) : doneLog[i].idx = i
  /\ Len(DetailFetches) <= Len(competition.dataUrls)
  /\ \A i \in 1..Len(DetailFetches) :
       /\ fetchLog[i].kind = "detail"
       /\ fetchLog[i].url = competition.dataUrls[i]
  /\ \A i \in 1..Len(fetchLog) :
       fetchLog[i].kind = "ranking" =>
         /\ i > Len(competition.dataUrls)
         /\ \A k \in 1..Len(competition.dataUrls) :
              /\ fetchLog[k] = [kind |-> "detail", url |-> competition.dataUrls[k]]
              /\ doneLog[k].idx = k /\ doneLog[k].ok

C1_Witness ==
  /\ dpc = "rankings"
  /\ Len(competition.dataUrls) = 2
  /\ competition.dataUrls[1] # competition.dataUrls[2]
  /\ Len(fetchLog) = 4
  /\ inflight = {4}

(***************************************************************************)
(* C2: when the k-th request of a getDetails call fails, requests 1..k     *)
(* have been issued and none is issued after it (a failed detail request   *)
(* prevents every ranking request, and the failed request is not issued    *)
(* again), and the call ends rejected.                                     *)
(***************************************************************************)
C2_FailureStopsTheBatch ==
  \A i \in 1..Len(doneLog) :
    ~doneLog[i].ok =>
      /\ i = Len(doneLog)
      /\ doneLog[i].idx = i
      /\ Len(fetchLog) = i
      /\ inflight = {}
      /\ dpc = "rejected"
      /\ fetchLog[i].kind = "detail" => RankingFetches = <<>>

C2_Witness ==
  /\ dpc = "rejected"
  /\ Len(dUrls) = 2
  /\ Len(fetchLog) = Len(competition.dataUrls) + 1
  /\ fetchLog[Len(fetchLog)] = [kind |-> "ranking", url |-> dUrls[1]]
  /\ ~doneLog[Len(doneLog)].ok

(***************************************************************************)
(* C3: when every request of a getDetails call succeeds, the contests of   *)
(* the returned competition are the rankings of the distinct ranking urls  *)
(* found on the detail pages, one each, in order of first discovery, every *)
(* such url being requested exactly once; when no ranking url is found,    *)
(* the contests are empty and no ranking is requested.                     *)
(***************************************************************************)
C3_OneContestPerDistinctRankingUrl ==
  dpc = "resolved" =>
    LET n == Len(competition.dataUrls)
        found == Flatten(dRawUrls)
    IN /\ Len(dRawUrls) = n
       /\ \A k \in 1..n :
            dRawUrls[k] = [i \in 1..Len(doneLog[k].body) |-> <<"url/", doneLog[k].body[i]>>]
       /\ {RankingFetches[i].url : i \in 1..Len(RankingFetches)} = Range(found)
       /\ \A i, j \in 1..Len(RankingFetches) :
            RankingFetches[i].url = RankingFetches[j].url => i = j
       /\ \A i, j \in 1..Len(RankingFetches) :
            i < j => FirstIndex(found, RankingFetches[i].url)
                       < FirstIndex(found, RankingFetches[j].url)
       /\ Len(competition.contests) = Len(RankingFetches)
       /\ \A i \in 1..Len(RankingFetches) :
            /\ competition.contests[i].title = cleanContest(doneLog[n + i].body.title)
            /\ competition.contests[i].results = RankingResults(doneLog[n + i].body.rows)
       /\ found = <<>> => competition.contests = <<>> /\ RankingFetches = <<>>

C3_Witness ==
  /\ dpc = "resolved"
  /\ Len(Flatten(dRawUrls)) = 4
  /\ Len(competition.contests) = 2
  /\ competition.contests[1].title # competition.contests[2].title

\* caller p starts a call in this step
StartsCall(p, op) ==
  calls[p].pc = "idle" /\ calls'[p] # calls[p] /\ calls'[p].op = op

\* caller p requests the club listing page in this step
RequestsListing(p) == calls[p].pc # "listing" /\ calls'[p].pc = "listing"

\* the getGroupCouples call of caller p runs its search in this step: the
\* call starts with a valid name on an available cache, or the listing it
\* has requested arrives
RunsSearch(p) ==
  \/ /\ StartsCall(p, "getGroupCouples")
     /\ calls'[p].outcome # "validation-error"
     /\ ~RequestsListing(p)
  \/ /\ calls[p].op = "getGroupCouples" /\ calls[p].pc = "listing"
     /\ calls'[p].outcome # "fetch-error"
     /\ calls'[p] # calls[p]

\* the roster requests among the requests of a call
IsRosterRequest(r) == r.target = "couples"

\* what C6 says of a search against the cache, key being the form of the
\* group name that is compared with the lower-cased club names
SearchResolves(p, key) ==
  LET list == clubs'.list
      matches == {i \in 1..Len(list) : toLowerCase(list[i].name) = key}
      rosters == SelectSeq(calls'[p].fetches, IsRosterRequest)
  IN /\ matches = {} =>
          /\ calls'[p].pc = "idle"
          /\ calls'[p].outcome = "group-not-found"
          /\ rosters = <<>>
     /\ matches # {} =>
          /\ calls'[p].pc = "roster"
          /\ Len(rosters) = 1
          /\ LET first == CHOOSE i \in matches : \A j \in matches : i <= j
             IN rosters[1].id = list[first].id

\* the requests of a getGroupCouples call: the listing first and only when
\* the cache was not populated, at most one roster, after the listing
RequestsInOrder(p) ==
  calls[p].op = "getGroupCouples" =>
    calls[p].fetches \in
      {<<>>, <<ListingRequest>>} \cup
      {<<RosterRequest(id)>> : id \in {"1", "2", "3"}} \cup
      {<<ListingRequest, RosterRequest(id)>> : id \in {"1", "2", "3"}}

(***************************************************************************)
(* C4: for non-overlapping searchGroups and getGroupCouples calls on one   *)
(* provider, once a club listing has been fetched no later call requests   *)
(* the listing page again and the cache never changes.                     *)
(***************************************************************************)
C4_CachePopulatedOnce ==
  [][(clubs.loaded /\ ~overlap') =>
       /\ clubs' = clubs
       /\ \A p \in Callers : ~RequestsListing(p)]_vars

C4_Witness ==
  /\ ~overlap
  /\ clubs.loaded /\ clubs.list = <<>>
  /\ calls["c1"].op = "getGroupCouples" /\ calls["c1"].fetches = <<ListingRequest>>
  /\ calls["c2"].op = "searchGroups" /\ calls["c2"].outcome = "resolved"
  /\ calls["c2"].fetches = <<>>

(***************************************************************************)
(* C5, as stated: searchGroups requests the club listing page exactly when *)
(* the cache holds no entry at the time of the call, also after a listing  *)
(* with zero clubs has been fetched.                                       *)
(***************************************************************************)
C5_FetchIffNoEntry ==
  [][\A p \in Callers :
       StartsCall(p, "searchGroups") =>
         (RequestsListing(p) <=> clubs.list = <<>>)]_vars

(***************************************************************************)
(* C5, amended: searchGroups requests the club listing page exactly when   *)
(* the cache has not been populated at the time of the call; once a        *)
(* listing has been fetched, be it one with zero clubs, it issues no       *)
(* request.                                                                *)
(***************************************************************************)
C5_FetchIffNotPopulated ==
  [][\A p \in Callers :
       StartsCall(p, "searchGroups") =>
         /\ RequestsListing(p) <=> ~clubs.loaded
         /\ ~RequestsListing(p) => calls'[p].fetches = <<>>]_vars

C5_Witness ==
  /\ clubs.loaded /\ clubs.list = <<>>
  /\ \E p \in Callers :
       /\ calls[p].op = "searchGroups"
       /\ calls[p].outcome = "resolved"
       /\ calls[p].fetches = <<>>

(***************************************************************************)
(* C6, as stated: getGroupCouples resolves the name against the cache by   *)
(* case-insensitive exact match, the listing being requested first when    *)
(* the cache is not populated; without a matching club the call fails with *)
(* group-not-found and requests no roster, with one it requests exactly    *)
(* one roster, that of the club (the first one if several match).         *)
(***************************************************************************)
C6_ExactMatch ==
  [][\A p \in Callers :
       /\ (StartsCall(p, "getGroupCouples") /\ ValidGroup(calls'[p].arg)) =>
            (RequestsListing(p) <=> ~clubs.loaded)
       /\ RunsSearch(p) => SearchResolves(p, toLowerCase(calls'[p].arg))
       /\ RequestsInOrder(p)']_vars

(***************************************************************************)
(* C6, amended: for a group name that passes validation, getGroupCouples   *)
(* resolves the name, trimmed of its surrounding blanks, against the cache *)
(* by case-insensitive exact match, the listing being requested first (and *)
(* before any roster) when the cache is not populated; once the listing is *)
(* there, without a matching club the call fails with group-not-found and  *)
(* requests no roster, with one it requests exactly one roster, that of    *)
(* the first matching club.                                                *)
(***************************************************************************)
C6_TrimmedExactMatch ==
  [][\A p \in Callers :
       /\ (StartsCall(p, "getGroupCouples") /\ ValidGroup(calls'[p].arg)) =>
            (RequestsListing(p) <=> ~clubs.loaded)
       /\ RunsSearch(p) => SearchResolves(p, toLowerCase(trim(calls'[p].arg)))
       /\ RequestsInOrder(p)']_vars

C6_Witness ==
  /\ clubs.loaded /\ Len(clubs.list) = 2
  /\ clubs.list[1].id = "2" /\ clubs.list[2].id = "1"
  /\ calls["c1"].op = "getGroupCouples"
  /\ calls["c1"].arg = <<" ", "A">>
  /\ calls["c1"].fetches = <<ListingRequest, RosterRequest("2")>>
  /\ calls["c1"].outcome = "resolved"

(***************************************************************************)
(* C7: listResults(year) issues exactly one fetch, to the plain listing    *)
(* endpoint if and only if now lies within season year, and to its         *)
(* ?Archives variant for every other year.                                 *)
(***************************************************************************)
C7_OneFetchArchiveIffOtherSeason ==
  /\ lpc = "idle" => lFetches = <<>>
  /\ lpc # "idle" =>
       /\ Len(lFetches) = 1
       /\ lFetches[1] = "list" <=> InSeason(lYear, now)
       /\ lFetches[1] # "list" => lFetches[1] = "list?Archives"

C7_Witness ==
  /\ lpc = "resolved"
  /\ lYear = 2023 /\ now = Date(2023, 7, 14)
  /\ lFetches = <<"list?Archives">>

(***************************************************************************)
(* C8: isWithinSeason(Y, d) is true if and only if d lies between August   *)
(* 15 of Y and August 14 of Y + 1, both included: August 14 of Y is        *)
(* outside, August 15 of Y inside, August 14 of Y + 1 inside and August 15 *)
(* of Y + 1 outside.                                                       *)
(***************************************************************************)
C8_SeasonIsAug15ToAug14 ==
  (sChecked /\ sDate.valid) =>
    /\ sResult <=> InSeason(sYear, sDate)
    /\ sDate = Date(sYear, 7, 14) => ~sResult
    /\ sDate = Date(sYear, 7, 15) => sResult
    /\ sDate = Date(sYear + 1, 7, 14) => sResult
    /\ sDate = Date(sYear + 1, 7, 15) => ~sResult

C8_Witness ==
  sChecked /\ sDate = Date(sYear + 1, 7, 14) /\ sResult

(***************************************************************************)
(* C9: the list listResults returns holds no two competitions with the     *)
(* same id, and rows of equal normalized place and equal date with         *)
(* different manifestation ids end in one record, whose dataUrls holds the *)
(* detail url of each of them, whatever the order of the rows.             *)
(***************************************************************************)
C9_SamePlaceAndDateMerged ==
  lpc = "resolved" =>
    /\ \A i, j \in 1..Len(lResult) : lResult[i].id = lResult[j].id => i = j
    /\ \A i, j \in 1..Len(lRows) :
         ( /\ KeptRow(lRows[i], lYear) /\ KeptRow(lRows[j], lYear)
           /\ NormalizedPlace(lRows[i].place) = NormalizedPlace(lRows[j].place)
           /\ lRows[i].date = lRows[j].date )
         => LET same == {k \in 1..Len(lResult) :
                           /\ lResult[k].place = NormalizedPlace(lRows[i].place)
                           /\ lResult[k].date = lRows[i].date}
            IN /\ Cardinality(same) = 1
               /\ \A k \in same :
                    {RowUrl(lRows[i]), RowUrl(lRows[j])} \subseteq Range(lResult[k].dataUrls)

C9_Witness ==
  /\ lpc = "resolved"
  /\ Len(lRows) = 2
  /\ KeptRow(lRows[1], lYear) /\ KeptRow(lRows[2], lYear)
  /\ lRows[1].place # lRows[2].place
  /\ lRows[1].date = lRows[2].date
  /\ lRows[1].href = <<"manif?", "NumManif=", "2">>
  /\ lRows[2].href = <<"manif?", "NumManif=", "1">>
  /\ Len(lResult) = 1
  /\ lResult[1].dataUrls = <<<<"details/", "2">>, <<"details/", "1">>>>

(***************************************************************************)
(* C10: every competition listResults(year) returns comes from a row with  *)
(* a numeric manifestation id and a date within season year; the other     *)
(* rows are dropped without failing the call, and the result holds no      *)
(* missing entry.                                                          *)
(***************************************************************************)
C10_OnlyUsableRowsOfTheSeason ==
  /\ lpc = "rejected" => lRows = <<>>
  /\ lpc = "resolved" =>
       \A k \in 1..Len(lResult) :
         /\ lResult[k] # Undefined
         /\ \A u \in Range(lResult[k].dataUrls) :
              \E i \in 1..Len(lRows) :
                /\ KeptRow(lRows[i], lYear)
                /\ RowUrl(lRows[i]) = u
                /\ NormalizedPlace(lRows[i].place) = lResult[k].place
         /\ \E i \in 1..Len(lRows) :
              /\ KeptRow(lRows[i], lYear)
              /\ lRows[i].date = lResult[k].date

C10_Witness ==
  /\ lpc = "resolved"
  /\ Len(lRows) = 2
  /\ ~lRows[1].link
  /\ HasManifId(lRows[2]) /\ InSeason(lYear, lRows[2].date)
  /\ Len(lResult) = 1

(***************************************************************************)
(* Vocabulary of the properties of the name normaliser.                    *)
(***************************************************************************)
\* the canonical name of a dancer: the forename, a space, and the surname
\* without accents, every word of it capitalised
CanonicalName(d) == d.forename \o <<" ">> \o titleize(removeAccents(d.surname))

\* the canonical name of a couple
CoupleName(d1, d2) == CanonicalName(d1) \o <<" ", "-", " ">> \o CanonicalName(d2)

\* the argument of the call holds one display name and nothing else
OneDancerOnly == \E d \in Dancers : nNames = DisplayName(d)

RECURSIVE IsInterleaving(_, _, _)
\* s is a and b shuffled together, the order inside a and inside b kept
IsInterleaving(a, b, s) ==
  IF s = <<>> THEN a = <<>> /\ b = <<>>
  ELSE \/ /\ a # <<>> /\ a[Len(a)] = s[Len(s)]
          /\ IsInterleaving(SubSeq(a, 1, Len(a) - 1), b, SubSeq(s, 1, Len(s) - 1))
       \/ /\ b # <<>> /\ b[Len(b)] = s[Len(s)]
          /\ IsInterleaving(a, SubSeq(b, 1, Len(b) - 1), SubSeq(s, 1, Len(s) - 1))

\* C11: cleanNames applied to two display names 'SURNAME Forename' joined by
\* the break marker returns exactly 'Forename Surname - Forename Surname',
\* with no character more and none less.
C11_RoundTrip ==
  \A d1, d2 \in Dancers :
    (npc = "done" /\ nNames = DisplayName(d1) \o BreakMarker \o DisplayName(d2))
      => nOut = CoupleName(d1, d2)

\* C12: cleanNames applied to one display name alone does not return a
\* string: the call ends in a failure.
C12_OneDancerFails == ~(OneDancerOnly /\ npc = "done")

\* C18: after every step of the scan of a dancer, the characters read so
\* far are the two accumulators shuffled together, each in its order; the
\* surname accumulator holds upper-case and separation symbols only; and
\* prevUpper is true exactly when the last character read is an upper-case
\* symbol.
C18_ScanInvariant ==
  npc = "scan" =>
    /\ IsInterleaving(nLast, nFirst, SubSeq(nDancers[nIdx], 1, nPos))
    /\ \A i \in 1..Len(nLast) : IsUpper(nLast[i]) \/ IsSeparator(nLast[i])
    /\ nPrevUpper = (nPos > 0 /\ IsUpper(nDancers[nIdx][nPos]))

\* the scan has moved the capital of a forename out of the surname, after a
\* separator was kept in the surname
C18_Witness ==
  /\ npc = "scan"
  /\ nPos = Len(nDancers[nIdx])
  /\ nPos >= 3
  /\ nLast # <<>> /\ nFirst # <<>>
  /\ \E i \in 2..nPos :
       IsUpper(nDancers[nIdx][i - 1]) /\ ~IsUpper(nDancers[nIdx][i])
         /\ ~IsSeparator(nDancers[nIdx][i])
  /\ \E i \in 1..Len(nLast) : IsSeparator(nLast[i])

\* C14: cleaning a title that has been cleaned changes nothing.
C14_Idempotent == Len(tTitles) = 3 => tTitles[3] = tTitles[2]

\* the ranking pages received so far by the call under way
IsRankingPage(d) == d.ok /\ fetchLog[d.idx].kind = "ranking"
RankingPagesReceived == SelectSeq(doneLog, IsRankingPage)

\* C13: the results of every ranking extracted hold one entry per distinct
\* normalised couple name of the rows of its page, and the rank of an entry
\* is the rank of the first row, in document order, that carries its name.
C13_FirstRowWins ==
  (fetchLog # <<>> /\ IsRankingFetch(fetchLog[Len(fetchLog)])) =>
    \A k \in 1..Len(dResults) :
      LET rows == RankingPagesReceived[k].body.rows
          recorded == dResults[k].results
      IN /\ \A i \in 1..Len(rows) :
              Cardinality({e \in 1..Len(recorded) :
                             recorded[e].couple = CleanedCells[rows[i].couple]}) = 1
         /\ \A e \in 1..Len(recorded) :
              \E i \in 1..Len(rows) :
                /\ CleanedCells[rows[i].couple] = recorded[e].couple
                /\ rows[i].rank = recorded[e].rank
                /\ \A j \in 1..(i - 1) :
                     CleanedCells[rows[j].couple] # recorded[e].couple

\* a competition returned with the ranking of a page on which two rows of
\* different cells carry the same normalised names
C13_Witness ==
  /\ dpc = "resolved"
  /\ \E k \in 1..Len(competition.contests) :
       LET rows == RankingPagesReceived[k].body.rows
       IN /\ Len(competition.contests[k].results) = 2
          /\ \E i, j \in 1..Len(rows) :
               /\ i < j
               /\ rows[i].couple # rows[j].couple
               /\ rows[i].rank # rows[j].rank
               /\ CleanedCells[rows[i].couple] = CleanedCells[rows[j].couple]

\* caller p starts a call that needs the club directory in this step
StartsDirectoryCall(p) ==
  \/ StartsCall(p, "searchGroups")
  \/ StartsCall(p, "getGroupCouples") /\ calls'[p].outcome # "validation-error"

\* the listing page requested by caller p arrives in this step
ListingArrives(p) ==
  calls[p].pc = "listing" /\ calls'[p].pc # "listing"
    /\ calls'[p].outcome # "fetch-error"

\* the request of the listing page of caller p fails in this step
ListingFails(p) ==
  calls[p].pc = "listing" /\ calls'[p].pc # "listing"
    /\ calls'[p].outcome = "fetch-error"

(***************************************************************************)
(* C15, as stated: when calls overlap, the listing page is requested once  *)
(* (no call requests it while the request of another call is under way)    *)
(* and the cache is written once (once populated it does not change).      *)
(***************************************************************************)
C15_OverlapFetchesOnce ==
  [][/\ \A p \in Callers :
          RequestsListing(p) => \A q \in Callers \ {p} : calls[q].pc # "listing"
     /\ clubs.loaded => clubs' = clubs]_vars

(***************************************************************************)
(* C15, amended: every call that starts while the cache is not populated   *)
(* requests the listing page itself, whether or not the request of another *)
(* call is under way, and a call that starts once it is populated does     *)
(* not; every listing page that arrives is written to the cache, replacing *)
(* what an overlapping call wrote, and the call it belongs to is answered  *)
(* from it; nothing else writes the cache.                                 *)
(***************************************************************************)
C15_EveryUnpopulatedCallFetches ==
  [][/\ \A p \in Callers :
          /\ StartsDirectoryCall(p) => (RequestsListing(p) <=> ~clubs.loaded)
          /\ ListingArrives(p) =>
               /\ clubs'.loaded
               /\ calls[p].op = "searchGroups" =>
                    calls'[p].result = SearchNames(clubs'.list, calls[p].arg)
               /\ calls[p].op = "getGroupCouples" =>
                    SearchResolves(p, toLowerCase(trim(calls[p].arg)))
     /\ clubs' # clubs => \E p \in Callers : ListingArrives(p)]_vars

\* two searchGroups calls that were answered each from a listing page of
\* its own, the second page differing from the first
C15_Witness ==
  /\ overlap
  /\ clubs.loaded
  /\ \A p \in Callers :
       /\ calls[p].op = "searchGroups" /\ calls[p].arg = <<>>
       /\ calls[p].outcome = "resolved"
       /\ calls[p].fetches = <<ListingRequest>>
  /\ calls["c1"].result # calls["c2"].result

(***************************************************************************)
(* C17: when the request of the listing page fails, the call is rejected   *)
(* and the cache is left as it was, that is, not populated unless an       *)
(* overlapping call has populated it; a call that starts after a failure   *)
(* while the cache is not populated requests the listing page again.       *)
(***************************************************************************)
C17_FailedFetchLeavesCacheUnpopulated ==
  [][\A p \in Callers :
       /\ ListingFails(p) =>
            /\ clubs' = clubs
            /\ ~overlap => ~clubs'.loaded
            /\ calls'[p].pc = "idle" /\ calls'[p].result = <<>>
       /\ (StartsDirectoryCall(p) /\ ~clubs.loaded
             /\ \E q \in Callers : calls[q].outcome = "fetch-error") =>
            /\ RequestsListing(p)
            /\ calls'[p].fetches = <<ListingRequest>>]_vars

\* the listing page is requested again by the call that follows a failure
C17_Witness ==
  /\ ~overlap
  /\ ~clubs.loaded
  /\ calls["c1"].outcome = "fetch-error" /\ calls["c1"].fetches = <<ListingRequest>>
  /\ calls["c2"].pc = "listing" /\ calls["c2"].fetches = <<ListingRequest>>

(***************************************************************************)
(* C16: a getDetails call that fails leaves no part of its rankings on the *)
(* competition.  Up to the end of its detail requests the call does not    *)
(* touch the competition, so that a failure among them leaves the contests *)
(* as they were before the call; from the first ranking request on the     *)
(* contests are empty, and a failure among the ranking requests leaves     *)
(* them empty, whatever was extracted before it.                           *)
(***************************************************************************)
C16_NoPartialContests ==
  [][/\ dpc' = "details" => competition' = competition
     /\ (dpc = "details" /\ dpc' = "rejected") => competition' = competition
     /\ dpc' = "rankings" => competition'.contests = <<>>
     /\ (dpc = "rankings" /\ dpc' = "rejected") =>
          /\ competition' = competition
          /\ competition'.contests = <<>>]_vars

\* a call rejected on its second ranking, the first one having been
\* extracted
C16_Witness ==
  /\ dpc = "rejected"
  /\ IsRankingFetch(fetchLog[Len(fetchLog)])
  /\ Len(RankingFetches) = 2
  /\ Len(dResults) = 1
  /\ dResults[1].results # <<>>
  /\ competition.contests = <<>>

\* the anchor years a date of the calendar at hand may belong to
AnchorYears == (2022 - 1)..(2022 + YearSpan + 1)

\* C19: every calendar date is within the season of exactly one year, and
\* when isWithinSeason answers true for a year, it answers false for every
\* other year.
C19_SeasonsPartition ==
  sDate.valid =>
    /\ Cardinality({y \in AnchorYears : isWithinSeason(y, sDate)}) = 1
    /\ (sChecked /\ sResult) =>
         \A y \in AnchorYears \ {sYear} : ~isWithinSeason(y, sDate)

\* the first day of a season, found within it
C19_Witness ==
  /\ sChecked /\ sResult
  /\ sDate = Date(2023, 7, 15)
  /\ sYear = 2023

\* the distinct ranking links of the detail pages received by the call
DiscoveredLinks ==
  UNION {Range(doneLog[i].body) :
           i \in {j \in 1..Len(doneLog) : doneLog[j].ok /\ IsDetailFetch(fetchLog[j])}}

(***************************************************************************)
(* C20: every request being answered in the end, every getDetails call     *)
(* ends, resolved or rejected, and it never issues more requests than the  *)
(* detail urls of the competition plus the distinct ranking links found.   *)
(***************************************************************************)
C20_GetDetailsTerminates ==
  /\ [](/\ Len(DetailFetches) <= Len(competition.dataUrls)
        /\ Len(RankingFetches) <= Cardinality(DiscoveredLinks))
  /\ (dpc \in {"details", "rankings"}) ~> (dpc \in {"resolved", "rejected"})

\* a call that has ended after as many requests as it may issue
C20_Witness ==
  /\ dpc = "resolved"
  /\ Len(competition.dataUrls) = 2
  /\ Cardinality(DiscoveredLinks) = 2
  /\ Len(fetchLog) = 4
  /\ Len(Flatten(dRawUrls)) > 2
====
